---- MODULE Spec2Model ----
(***************************************************************************)
(* Detection-report aggregation of rsthackathon_START.                     *)
(*                                                                         *)
(*   inference.py      extract_image_id, load_metadata,                    *)
(*                     save_detections_to_json, process_image_batch        *)
(*   streamlit_app.py  should_run_inference, run_inference_on_images       *)
(*   mobile_upload.py  the upload handler                                  *)
(*   download_mapillary.py  fetch_images_metadata, download_image          *)
(*                                                                         *)
(* Strings are sequences of one-character strings, so that stem, split,    *)
(* startswith and join are computed character by character.  Confidence    *)
(* scores are integers in units of 1e-5; the values the code rounds to     *)
(* four decimals are integers in units of 1e-4.                            *)
(***************************************************************************)
EXTENDS Integers, Sequences, FiniteSets, TLC

(***************************************************************************)
(* Bounds of the model.                                                    *)
(***************************************************************************)
\* detections returned for one image
MaxDets == 2
\* detections the detector returns for one image of a dashboard batch
MaxBatchDets == 1
\* images uploaded through the upload front end
MaxUploads == 1
\* Reports in the collection file before a direct call is no longer made
MaxFeatures == 2
\* underscore-separated parts of a generated file name
MaxParts == 4
\* entries of one metadata list
MaxEntries == 2
\* characters of an arbitrary file name, after the prefix if it has one
MaxNameLen == 5
\* the largest limit fetch_images_metadata is called with
MaxLimit == 3
\* images in one page of the API's answer
MaxPage == 2

(***************************************************************************)
(* Characters and strings.                                                 *)
(***************************************************************************)
Underscore == "_"
Dot == "."

PotholePrefix == <<"p", "o", "t", "h", "o", "l", "e", "_">>

RECURSIVE LastIndexOf(_, _, _)
\* str.rfind(c) over positions 1..i; 0 when c does not occur
LastIndexOf(s, c, i) ==
    IF i = 0 THEN 0
    ELSE IF s[i] = c THEN i
    ELSE LastIndexOf(s, c, i - 1)

\* pathlib's PurePath.stem of a final path component: the name without its
\* last suffix; a leading or a trailing dot starts no suffix
Stem(name) ==
    LET i == LastIndexOf(name, Dot, Len(name))
    IN  IF 1 < i /\ i < Len(name) THEN SubSeq(name, 1, i - 1) ELSE name

\* pathlib's PurePath.suffix of a final path component
Suffix(name) ==
    LET i == LastIndexOf(name, Dot, Len(name))
    IN  IF 1 < i /\ i < Len(name) THEN SubSeq(name, i, Len(name)) ELSE <<>>

\* str.startswith
StartsWith(s, p) ==
    /\ Len(s) >= Len(p)
    /\ SubSeq(s, 1, Len(p)) = p

RECURSIVE SplitFrom(_, _, _)
\* str.split(sep) of s[i..]: cur is the part read so far
SplitFrom(s, i, cur) ==
    IF i > Len(s) THEN <<cur>>
    ELSE IF s[i] = Underscore THEN <<cur>> \o SplitFrom(s, i + 1, <<>>)
    ELSE SplitFrom(s, i + 1, Append(cur, s[i]))

Split(s) == SplitFrom(s, 1, <<>>)

RECURSIVE Join(_)
\* "_".join(parts)
Join(parts) ==
    IF Len(parts) = 0 THEN <<>>
    ELSE IF Len(parts) = 1 THEN parts[1]
    ELSE parts[1] \o <<Underscore>> \o Join(Tail(parts))

\* a crowd upload needs len(parts) >= 4: "pothole" and three more
MinUploadParts == 4

\* the same with the crowd-upload convention dropped
ExtractImageIdPreOnly(filename) == Split(Stem(filename))[1]

\* the upload convention for every stem that starts with the prefix
ExtractImageIdAnyPrefixed(filename) ==
    LET stem  == Stem(filename)
        parts == Split(stem)
    IN  IF StartsWith(stem, PotholePrefix)
        THEN Join(Tail(parts))
        ELSE parts[1]

\* the upload convention without dropping the prefix
ExtractImageIdKeepingPrefix(filename) ==
    LET stem  == Stem(filename)
        parts == Split(stem)
    IN  IF StartsWith(stem, PotholePrefix) /\ Len(parts) >= MinUploadParts
        THEN stem
        ELSE parts[1]

\* extract_image_id(filename)
ExtractImageId(filename) ==
    LET stem  == Stem(filename)
        parts == Split(stem)
    IN  IF StartsWith(stem, PotholePrefix) /\ Len(parts) >= MinUploadParts
        THEN Join(Tail(parts))
        ELSE parts[1]

(***************************************************************************)
(* Confidence scores and rounding.                                         *)
(***************************************************************************)
\* 0.74, the threshold of the dashboard and of the command-line run, in 1e-5
ConfidenceThreshold == 74000
\* one unit of four decimals is ten units of five
ScoreUnitsPerRounded == 10

\* what the detector may report for one box: a label with a score just below
\* the threshold, exactly the threshold, or above it
Detection ==
    { [label |-> 2, score |-> 90004],
      [label |-> 1, score |-> ConfidenceThreshold],
      [label |-> 1, score |-> 90004],
      [label |-> 2, score |-> 73999] }

RECURSIVE SeqsUpTo(_, _)
\* the sequences over S of length at most n
SeqsUpTo(S, n) ==
    IF n = 0 THEN {<<>>}
    ELSE LET shorter == SeqsUpTo(S, n - 1)
         IN  shorter \cup {Append(q, x) : q \in {r \in shorter : Len(r) = n - 1}, x \in S}

DetectionSets == SeqsUpTo(Detection, MaxDets)

\* round(n / d) to the nearest integer, a tie going to the even neighbour, as
\* Python's round() does for a decimal that is exactly representable
RoundHalfEven(n, d) ==
    LET q == n \div d
        r == n % d
    IN  IF 2 * r < d THEN q
        ELSE IF 2 * r > d THEN q + 1
        ELSE IF q % 2 = 0 THEN q ELSE q + 1

RECURSIVE SumSeq(_)
SumSeq(s) == IF s = <<>> THEN 0 ELSE Head(s) + SumSeq(Tail(s))

RECURSIVE MinSeq(_)
MinSeq(s) ==
    IF Len(s) = 1 THEN s[1]
    ELSE LET m == MinSeq(Tail(s)) IN IF s[1] <= m THEN s[1] ELSE m

RECURSIVE MaxSeq(_)
MaxSeq(s) ==
    IF Len(s) = 1 THEN s[1]
    ELSE LET m == MaxSeq(Tail(s)) IN IF s[1] >= m THEN s[1] ELSE m

RECURSIVE SortedDescending(_)
SortedDescending(S) ==
    IF S = {} THEN <<>>
    ELSE LET m == CHOOSE x \in S : \A y \in S : y <= x
         IN  <<m>> \o SortedDescending(S \ {m})

RECURSIVE Sorted(_)
\* sorted(S) of a set of integers
Sorted(S) ==
    IF S = {} THEN <<>>
    ELSE LET m == CHOOSE x \in S : \A y \in S : x <= y
         IN  <<m>> \o Sorted(S \ {m})

(***************************************************************************)
(* Images, metadata records and Reports.                                   *)
(***************************************************************************)
JpgSuffix == <<".", "j", "p", "g">>

\* a pre-loaded image, <id>_<captured_at>.jpg
PreName == <<"3", "7", "_", "1", "5">> \o JpgSuffix

Digit(n) == <<"0", "1", "2", "3", "4", "5", "6", "7", "8", "9">>[n + 1]

\* the n-th upload's timestamp, %Y%m%d_%H%M%S_%f cut to milliseconds
Timestamp(n) == <<"2", "0", "_", "0", "9", "_", "5", Digit(n)>>

\* the n-th upload's file name
UploadName(n) == PotholePrefix \o Timestamp(n) \o JpgSuffix

PreDir == "pre"
UsersDir == "pre_users"

PrePath == <<PreDir, PreName>>
UploadPath(n) == <<UsersDir, UploadName(n)>>

\* Path(image_path).name
PathName(path) == path[2]

\* [longitude, latitude]
Munich == <<11, 48>>

\* a metadata record: with coordinates, with a geometry that has none, or
\* with no geometry at all
WithCoordinates == [hasGeometry |-> TRUE, hasCoordinates |-> TRUE, coordinates |-> Munich]
NoCoordinates == [hasGeometry |-> TRUE, hasCoordinates |-> FALSE, coordinates |-> <<>>]
NoGeometry == [hasGeometry |-> FALSE, hasCoordinates |-> FALSE, coordinates |-> <<>>]

PreId == <<"3", "7">>

EmptyMap == [k \in {} |-> NoGeometry]

\* the metadata mappings a run is made with: no record for the pre-loaded
\* image, or a record with or without coordinates
MetadataMaps ==
    { EmptyMap,
      [k \in {Timestamp(1)} |-> WithCoordinates] }
    \cup {[k \in {PreId} |-> r] : r \in {WithCoordinates, NoCoordinates, NoGeometry}}

NoFeature == [image |-> <<>>, image_id |-> <<>>, coordinates |-> <<>>, labels |-> <<>>]

(***************************************************************************)
(* save_detections_to_json: filter, join, aggregate.                       *)
(***************************************************************************)
\* the detections strictly above the threshold
FilteredStrict(dets, threshold) ==
    SelectSeq(dets, LAMBDA d : d.score > threshold)

\* every detection, whatever its score
FilteredAll(dets, threshold) == dets

\* filtered_data: the detections with score >= confidence_threshold
Filtered(dets, threshold) ==
    SelectSeq(dets, LAMBDA d : d.score >= threshold)

\* label_confidences[label]: the scores kept for one label, in input order
LabelConfidences(filtered, label) ==
    LET ofLabel == SelectSeq(filtered, LAMBDA d : d.label = label)
    IN  [i \in 1..Len(ofLabel) |-> ofLabel[i].score]

\* one entry of labels_info
LabelStat(label, confidences) ==
    [ label          |-> label,
      avg_confidence |-> RoundHalfEven(SumSeq(confidences),
                                       Len(confidences) * ScoreUnitsPerRounded),
      min_confidence |-> RoundHalfEven(MinSeq(confidences), ScoreUnitsPerRounded),
      max_confidence |-> RoundHalfEven(MaxSeq(confidences), ScoreUnitsPerRounded),
      count          |-> Len(confidences) ]

\* labels_info with the labels in descending order
LabelsInfoDescending(filtered) ==
    LET order == SortedDescending({filtered[i].label : i \in 1..Len(filtered)})
    IN  [i \in 1..Len(order) |-> LabelStat(order[i], LabelConfidences(filtered, order[i]))]

\* labels_info with one LabelStat per detection kept, ungrouped
LabelsInfoPerDetection(filtered) ==
    [i \in 1..Len(filtered) |-> LabelStat(filtered[i].label, <<filtered[i].score>>)]

\* labels_info: one LabelStat per label kept, sorted(label_confidences.items())
LabelsInfo(filtered) ==
    LET order == Sorted({filtered[i].label : i \in 1..Len(filtered)})
    IN  [i \in 1..Len(order) |-> LabelStat(order[i], LabelConfidences(filtered, order[i]))]

\* any record under the identifier taken for a location
HasCoordinatesAnyRecord(metadata_map, image_id) == image_id \in DOMAIN metadata_map

\* latitude and longitude are found: the record exists and has
\* geometry.coordinates
HasCoordinates(metadata_map, image_id) ==
    /\ image_id \in DOMAIN metadata_map
    /\ metadata_map[image_id].hasGeometry
    /\ metadata_map[image_id].hasCoordinates

\* the GeoJSON feature of one image
Feature(image_path, filtered, metadata_map) ==
    LET image_id == ExtractImageId(PathName(image_path))
    IN  [ image       |-> PathName(image_path),
          image_id    |-> image_id,
          coordinates |-> IF image_id \in DOMAIN metadata_map
                          THEN metadata_map[image_id].coordinates ELSE <<>>,
          labels      |-> LabelsInfo(filtered) ]

(***************************************************************************)
(* The collection file and its summary.                                    *)
(***************************************************************************)
NoSummary ==
    [ present |-> FALSE, total_images |-> 0, unique_labels |-> <<>>,
      total_detections |-> 0, min |-> 0, max |-> 0, avg |-> 0 ]

\* what output_json_path may hold
FileKinds ==
    { "absent",          \* no file
      "unreadable",      \* exists, open() for reading raises
      "notjson",         \* json.load raises
      "nonobject",       \* JSON that is no object: .get raises
      "wrongtype",       \* an object whose type is not FeatureCollection
      "nofeatures",      \* a FeatureCollection without a features key
      "featuresnotlist", \* a FeatureCollection whose features is no list
      "foreignfeatures", \* a FeatureCollection of features without properties.labels
      "collection" }     \* a FeatureCollection of Reports

AbsentFile == [kind |-> "absent", features |-> <<>>, summary |-> NoSummary]

RECURSIVE AllStats(_)
\* every LabelStat of every feature, in collection order
AllStats(features) ==
    IF features = <<>> THEN <<>>
    ELSE Head(features).labels \o AllStats(Tail(features))

\* the mean of the per-entry averages, each entry counted once
AverageUnweighted(stats) ==
    RoundHalfEven(SumSeq([i \in 1..Len(stats) |-> stats[i].avg_confidence]), Len(stats))

\* confidence_stats.avg: sum(avg_confidence * count) / sum(count), rounded
Average(stats) ==
    RoundHalfEven(SumSeq([i \in 1..Len(stats) |-> stats[i].avg_confidence * stats[i].count]),
                  SumSeq([i \in 1..Len(stats) |-> stats[i].count]))

\* the summary of a collection of n features with these LabelStat entries
SummaryOfStats(n, stats) ==
    [ present          |-> TRUE,
      total_images     |-> n,
      unique_labels    |-> Sorted({stats[i].label : i \in 1..Len(stats)}),
      total_detections |-> SumSeq([i \in 1..Len(stats) |-> stats[i].count]),
      min |-> RoundHalfEven(MinSeq([i \in 1..Len(stats) |-> stats[i].min_confidence]), 1),
      max |-> RoundHalfEven(MaxSeq([i \in 1..Len(stats) |-> stats[i].max_confidence]), 1),
      avg |-> Average(stats) ]

\* a summary of the new feature alone
SummaryOfNewOnly(features) ==
    SummaryOfStats(1, features[Len(features)].labels)

\* geojson["summary"], recomputed over all the features (features is not empty:
\* the new feature was appended)
Summary(features) ==
    SummaryOfStats(Len(features), AllStats(features))

\* the merge raises: geojson["features"] is missing or has no append, or a
\* feature of the file has no properties.labels
MergeRaises(file) ==
    file.kind \in {"nofeatures", "featuresnotlist", "foreignfeatures"}

\* the features of the loaded geojson: those of a FeatureCollection, none for a
\* file that is absent, unreadable, not JSON or of another type
LoadedFeatures(file) ==
    IF file.kind = "collection" THEN file.features ELSE <<>>

\* the new feature replaces the features of the same image
MergedDeduplicating(file, feature) ==
    Append(SelectSeq(LoadedFeatures(file), LAMBDA f : f.image # feature.image), feature)

\* the new feature put in front of the loaded ones
MergedPrepending(file, feature) == <<feature>> \o LoadedFeatures(file)

\* geojson["features"].append(feature)
Merged(file, feature) == Append(LoadedFeatures(file), feature)

NotCalled == [kind |-> "notcalled", feature |-> NoFeature]
ReturnsNone == [kind |-> "none", feature |-> NoFeature]
Raises == [kind |-> "raised", feature |-> NoFeature]
Returns(feature) == [kind |-> "feature", feature |-> feature]

\* the call returning its Report without writing the file
SaveDetectionsNotPersisting(image_path, dets, metadata_map, file, threshold) ==
    LET filtered == Filtered(dets, threshold)
        image_id == ExtractImageId(PathName(image_path))
    IN  IF filtered = <<>>
        THEN [ret |-> ReturnsNone, file |-> file, log |-> "silent"]
        ELSE IF ~HasCoordinates(metadata_map, image_id)
        THEN [ret |-> ReturnsNone, file |-> file, log |-> "no metadata found"]
        ELSE [ ret |-> Returns(Feature(image_path, filtered, metadata_map)),
               file |-> file, log |-> "found coordinates" ]

\* save_detections_to_json(image_path, boxes, labels, scores, metadata_map,
\* output_json_path, confidence_threshold): what it returns, the file it
\* leaves and the diagnostic it prints
SaveDetectionsToJson(image_path, dets, metadata_map, file, threshold) ==
    LET filtered == Filtered(dets, threshold)
        image_id == ExtractImageId(PathName(image_path))
    IN  IF filtered = <<>>
        THEN [ret |-> ReturnsNone, file |-> file, log |-> "silent"]
        ELSE IF ~HasCoordinates(metadata_map, image_id)
        THEN [ret |-> ReturnsNone, file |-> file, log |-> "no metadata found"]
        ELSE IF MergeRaises(file)
        THEN [ret |-> Raises, file |-> file, log |-> "found coordinates"]
        ELSE LET feature  == Feature(image_path, filtered, metadata_map)
                 features == Merged(file, feature)
             IN  [ ret  |-> Returns(feature),
                   file |-> [ kind     |-> "collection",
                              features |-> features,
                              summary  |-> Summary(features) ],
                   log  |-> "found coordinates" ]

(***************************************************************************)
(* State.                                                                  *)
(***************************************************************************)
VARIABLES
    file,                    \* output/detections.json
    metadata_map,            \* the metadata mapping of the current run
    ret,                     \* what the last save_detections_to_json returned
    log,                     \* the diagnostic it printed
    call,                    \* the last call: its image, how many detections
                             \* reached the threshold, what the metadata holds
    preMeta,                 \* pre/metadata.json
    usersMeta,               \* pre_users/metadata.json
    uploaded,                \* images written to pre_users so far
    uploadPc,                \* the upload handler's position
    outputImages,            \* the *_detected images of the output directory
    preload_inference_done,  \* st.session_state.preload_inference_done
    pc,                      \* the dashboard's position
    queue,                   \* image_paths still to process in this batch
    results,                 \* process_image_batch's results so far
    resolved,                \* the last file name resolved and its identifier
    writers,                 \* each dashboard session inside save_detections_to_json:
                             \* the document it has built and not yet written
    annotated,               \* the runs of run_inference made with boxes: what the
                             \* detector returned, what was drawn, what was reported
    all_images,              \* fetch_images_metadata: the images collected so far
    page_token,              \* fetch_images_metadata: the cursor of the next page
    limit,                   \* fetch_images_metadata: its limit argument
    fetchPc                  \* fetch_images_metadata: its position

fetchVars == <<all_images, page_token, limit, fetchPc>>
aggVars == <<file, metadata_map, ret, log, call>>
sysVars == <<preMeta, usersMeta, uploaded, uploadPc, outputImages,
             preload_inference_done, pc, queue, results>>
vars == <<file, metadata_map, ret, log, call, preMeta, usersMeta, uploaded, uploadPc,
          outputImages, preload_inference_done, pc, queue, results, resolved, writers, annotated, fetchVars>>

\* the identifier the ingestion wrote into the image's metadata record
IngestedId(image_path) ==
    IF image_path = PrePath THEN PreId
    ELSE SubSeq(PathName(image_path), Len(PotholePrefix) + 1,
                Len(PathName(image_path)) - Len(JpgSuffix))

\* what the mapping holds for the image
Lookup(map, image_path) ==
    LET id == IngestedId(image_path)
    IN  IF id \notin DOMAIN map THEN "absent"
        ELSE IF ~map[id].hasGeometry THEN "nogeometry"
        ELSE IF ~map[id].hasCoordinates THEN "nocoordinates"
        ELSE "coordinates"

NoCall == [image_path |-> <<>>, kept |-> 0, lookup |-> "absent"]

CallOf(image_path, dets, map, threshold) ==
    [ image_path |-> image_path,
      kept       |-> Cardinality({i \in 1..Len(dets) : ~(dets[i].score < threshold)}),
      lookup     |-> Lookup(map, image_path) ]

\* the dashboard sessions that may run at the same time
Sessions == {"s1", "s2"}

NotWriting == [pc |-> "idle", doc |-> AbsentFile, feature |-> NoFeature]

NoWriters == [w \in Sessions |-> NotWriting]

NoResolved == [parts |-> <<>>, name |-> <<>>, id |-> <<>>, done |-> FALSE]

AbsentMeta == [kind |-> "absent", entries |-> <<>>]

\* the record the downloader wrote for the pre-loaded image
PreEntry == [id |-> PreId, image_id |-> <<>>, record |-> WithCoordinates]

InitSystem ==
    /\ preMeta = [kind |-> "list", entries |-> <<PreEntry>>]
    /\ usersMeta = AbsentMeta
    /\ uploaded = 0
    /\ uploadPc = "idle"
    /\ outputImages = {}
    /\ preload_inference_done = FALSE
    /\ pc = "idle"
    /\ queue = <<>>
    /\ results = <<>>

\* page_token = None
NoPageToken == "None"

\* fetch_images_metadata has not been called
NotFetching ==
    /\ all_images = <<>>
    /\ page_token = NoPageToken
    /\ limit = 0
    /\ fetchPc = "idle"

InitCall ==
    /\ ret = NotCalled
    /\ log = "silent"
    /\ call = NoCall
    /\ resolved = NoResolved
    /\ writers = NoWriters
    /\ annotated = <<>>
    /\ NotFetching

(***************************************************************************)
(* The command-line run: save_detections_to_json called image by image     *)
(* with the mapping loaded once.                                           *)
(***************************************************************************)
\* the images of the data directory
ImagePaths == {PrePath}

InitAggregate ==
    /\ file = AbsentFile
    /\ metadata_map \in MetadataMaps
    /\ InitCall
    /\ InitSystem

CallSaveDetections(image_path, dets) ==
    /\ Len(LoadedFeatures(file)) < MaxFeatures
    /\ \E r \in {SaveDetectionsToJson(image_path, dets, metadata_map, file,
                                      ConfidenceThreshold)} :
           /\ file' = r.file
           /\ ret' = r.ret
           /\ log' = r.log
    /\ call' = CallOf(image_path, dets, metadata_map, ConfidenceThreshold)
    /\ UNCHANGED <<metadata_map, sysVars, resolved, writers, annotated, fetchVars>>

NextAggregate ==
    \E image_path \in ImagePaths, dets \in DetectionSets :
        CallSaveDetections(image_path, dets)

SpecAggregate == InitAggregate /\ [][NextAggregate]_vars

(***************************************************************************)
(* The same run against whatever a previous run or another program left    *)
(* at output_json_path.                                                    *)
(***************************************************************************)
\* a Report of an earlier run, made with another threshold
PriorFeature ==
    [ image       |-> PreName,
      image_id    |-> PreId,
      coordinates |-> Munich,
      labels      |-> << [ label |-> 2, avg_confidence |-> 6000, min_confidence |-> 5500,
                           max_confidence |-> 6500, count |-> 2 ] >> ]

\* a summary that does not describe the features it is stored with
StaleSummary ==
    [ present |-> TRUE, total_images |-> 5, unique_labels |-> <<1>>,
      total_detections |-> 9, min |-> 1000, max |-> 2000, avg |-> 1500 ]

PriorFiles ==
    {[kind |-> k, features |-> <<>>, summary |-> NoSummary] : k \in FileKinds}
    \cup {[kind |-> "collection", features |-> <<PriorFeature>>, summary |-> sm] :
             sm \in {NoSummary, StaleSummary}}

InitAnyFile ==
    /\ file \in PriorFiles
    /\ metadata_map \in MetadataMaps
    /\ InitCall
    /\ InitSystem

SpecAnyFile == InitAnyFile /\ [][NextAggregate]_vars

(***************************************************************************)
(* Properties of save_detections_to_json.                                  *)
(***************************************************************************)
Last(s) == s[Len(s)]

\* the step appended the returned Report of the called image
ReportAppended ==
    /\ ret'.kind = "feature"
    /\ ret'.feature.image = PathName(call'.image_path)
    /\ file'.kind = "collection"
    /\ Len(file'.features) = Len(LoadedFeatures(file)) + 1
    /\ Last(file'.features) = ret'.feature

\* the step emitted nothing
NothingEmitted ==
    /\ ret'.kind = "none"
    /\ file' = file

\* C1 as stated: a call appends a Report if and only if at least one detection
\* has score >= threshold and the metadata holds a record for the image's
\* identifier; otherwise nothing is emitted.
C1_ReportIffDetectionAndRecord ==
    [][ IF call'.kept >= 1 /\ call'.lookup # "absent"
        THEN ReportAppended ELSE NothingEmitted ]_vars

\* C1 as amended: a call appends a Report if and only if at least one detection
\* has score >= threshold (equal counts) and the metadata holds a record with
\* geometry.coordinates for the image's identifier; otherwise nothing is
\* emitted.
C1_ReportIffDetectionAndCoordinates ==
    [][ IF call'.kept >= 1 /\ call'.lookup = "coordinates"
        THEN ReportAppended ELSE NothingEmitted ]_vars

\* a Report made of detections that all score exactly the threshold
C1_Witness ==
    /\ ret.kind = "feature"
    /\ call.kept >= 1
    /\ \A i \in 1..Len(ret.feature.labels) :
           ret.feature.labels[i].max_confidence * ScoreUnitsPerRounded = ConfidenceThreshold
    /\ Last(file.features) = ret.feature

\* C2: with a detection at or above the threshold and a record with
\* coordinates, the call returns a Report whose labels are strictly ascending
\* and whose counts add up to the number of detections at or above the
\* threshold.
C2_SortedLabelsAndTotalCount ==
    (call.kept >= 1 /\ call.lookup = "coordinates") =>
        /\ ret.kind = "feature"
        /\ \A i \in 1..Len(ret.feature.labels) : \A j \in 1..Len(ret.feature.labels) :
               i < j => ret.feature.labels[i].label < ret.feature.labels[j].label
        /\ SumSeq([i \in 1..Len(ret.feature.labels) |-> ret.feature.labels[i].count]) = call.kept

\* a Report with two labels
C2_Witness ==
    /\ ret.kind = "feature"
    /\ call.kept = 2
    /\ Len(ret.feature.labels) = 2

\* C3: when no detection reaches the threshold the call returns null and the
\* file is left as it was.
C3_BelowThresholdNoChange ==
    [][ call'.kept = 0 => (ret'.kind = "none" /\ file' = file) ]_vars

\* a call without a detection at the threshold, made on a collection
C3_Witness ==
    /\ call.image_path # <<>>
    /\ call.kept = 0
    /\ call.lookup = "coordinates"
    /\ ret.kind = "none"
    /\ file.kind = "collection"
    /\ file.features # <<>>

RECURSIVE CountOfFeatures(_)
\* the detections counted by a sequence of features, feature by feature
CountOfFeatures(features) ==
    IF features = <<>> THEN 0
    ELSE SumSeq([i \in 1..Len(Head(features).labels) |-> Head(features).labels[i].count])
         + CountOfFeatures(Tail(features))

\* C4: whenever the collection is persisted, its summary counts the features
\* and the detections of the whole collection.
C4_SummaryRecomputed ==
    [][ (file' # file /\ file'.kind = "collection") =>
            /\ file'.summary.present
            /\ file'.summary.total_images = Len(file'.features)
            /\ file'.summary.total_detections = CountOfFeatures(file'.features) ]_vars

\* a Report added to a collection that held a feature of an earlier run
\* under a summary that did not describe it
C4_Witness ==
    /\ ret.kind = "feature"
    /\ Len(file.features) = 2
    /\ file.features[1] = PriorFeature
    /\ file.summary.total_images = 2

\* C5: the persisted confidence_stats.avg is the count-weighted mean of the
\* LabelStat averages, to the nearest unit of four decimals.
C5_AverageIsCountWeighted ==
    [][ (file' # file /\ file'.kind = "collection") =>
            LET stats  == AllStats(file'.features)
                weight == SumSeq([i \in 1..Len(stats) |-> stats[i].count])
                total  == SumSeq([i \in 1..Len(stats) |->
                                     stats[i].avg_confidence * stats[i].count])
                diff   == file'.summary.avg * weight - total
            IN  /\ 2 * diff <= weight
                /\ 2 * diff >= 0 - weight ]_vars

\* two entries with different counts and averages, where the weighted mean is
\* not the mean of the averages
C5_Witness ==
    /\ file.kind = "collection"
    /\ file.summary.present
    /\ LET stats == AllStats(file.features)
       IN  /\ Len(stats) = 2
           /\ stats[1].count # stats[2].count
           /\ stats[1].avg_confidence # stats[2].avg_confidence
           /\ 2 * file.summary.avg # stats[1].avg_confidence + stats[2].avg_confidence

\* C6: every Report returned is appended, and a call that repeats the previous
\* one (same image, same Report) leaves both entries in the file, the count of
\* images growing by one each time.
C6_ReaggregationAdds ==
    [][ /\ ret'.kind = "feature" =>
              /\ file'.features = Append(LoadedFeatures(file), ret'.feature)
              /\ file'.summary.total_images = Len(LoadedFeatures(file)) + 1
        /\ (ret.kind = "feature" /\ ret'.kind = "feature" /\ call' = call
              /\ ret'.feature = ret.feature) =>
              /\ Len(file'.features) = Len(file.features) + 1
              /\ file'.features[Len(file'.features) - 1] = ret.feature
              /\ Last(file'.features) = ret.feature
              /\ file'.summary.total_images = file.summary.total_images + 1 ]_vars

\* the same image aggregated twice from an empty collection
C6_Witness ==
    /\ ret.kind = "feature"
    /\ file.kind = "collection"
    /\ Len(file.features) = 2
    /\ file.features[1] = file.features[2]
    /\ file.summary.total_images = 2

\* C9 as stated: whatever the file held, a call with a detection at the
\* threshold and a record with coordinates persists a collection that ends
\* with the new Report, starting from empty unless the file was a collection.
C9_LoadNeverFails ==
    [][ (call'.kept >= 1 /\ call'.lookup = "coordinates") =>
            /\ ret'.kind = "feature"
            /\ file'.kind = "collection"
            /\ Last(file'.features) = ret'.feature
            /\ (file.kind # "collection" => Len(file'.features) = 1) ]_vars

(***************************************************************************)
(* extract_image_id applied to generated file names.                       *)
(***************************************************************************)
PotholeToken == SubSeq(PotholePrefix, 1, Len(PotholePrefix) - 1)

\* the parts file names are generated from: the prefix token and the parts of
\* pothole_20251130_091234_567.jpg and 3736697343123377_1578561568299.jpg
NameParts ==
    { PotholeToken,
      <<"2", "0", "2", "5", "1", "1", "3", "0">>,
      <<"0", "9", "1", "2", "3", "4">>,
      <<"5", "6", "7">>,
      <<"3", "7", "3", "6", "6", "9", "7", "3", "4", "3", "1", "2", "3", "3", "7", "7">>,
      <<"1", "5", "7", "8", "5", "6", "1", "5", "6", "8", "2", "9", "9">> }

Extensions == {<<"j", "p", "g">>, <<"p", "n", "g">>}

RECURSIVE WithUnderscores(_)
\* the parts written one after the other, an underscore between two
WithUnderscores(parts) ==
    IF Len(parts) = 1 THEN parts[1]
    ELSE WithUnderscores(SubSeq(parts, 1, Len(parts) - 1))
         \o <<Underscore>> \o parts[Len(parts)]

FileName(parts, ext) == WithUnderscores(parts) \o <<Dot>> \o ext

InitResolve ==
    /\ resolved \in { [parts |-> p, name |-> FileName(p, e), id |-> <<>>, done |-> FALSE] :
                         p \in SeqsUpTo(NameParts, MaxParts) \ {<<>>}, e \in Extensions }
    /\ file = AbsentFile
    /\ metadata_map = EmptyMap
    /\ ret = NotCalled
    /\ log = "silent"
    /\ call = NoCall
    /\ writers = NoWriters
    /\ annotated = <<>>
    /\ NotFetching
    /\ InitSystem

Resolve ==
    /\ ~resolved.done
    /\ resolved' = [resolved EXCEPT !.id = ExtractImageId(resolved.name), !.done = TRUE]
    /\ UNCHANGED <<aggVars, sysVars, writers, annotated, fetchVars>>

SpecResolve == InitResolve /\ [][Resolve]_vars

UploadExample ==
    FileName(<< PotholeToken,
                <<"2", "0", "2", "5", "1", "1", "3", "0">>,
                <<"0", "9", "1", "2", "3", "4">>,
                <<"5", "6", "7">> >>, <<"j", "p", "g">>)

UploadExampleId ==
    << "2", "0", "2", "5", "1", "1", "3", "0", "_",
       "0", "9", "1", "2", "3", "4", "_", "5", "6", "7" >>

PreExample ==
    FileName(<< <<"3", "7", "3", "6", "6", "9", "7", "3", "4", "3", "1", "2", "3", "3", "7", "7">>,
                <<"1", "5", "7", "8", "5", "6", "1", "5", "6", "8", "2", "9", "9">> >>,
             <<"j", "p", "g">>)

PreExampleId ==
    <<"3", "7", "3", "6", "6", "9", "7", "3", "4", "3", "1", "2", "3", "3", "7", "7">>

\* C8: pothole_<a>_<b>_<c>.<ext> resolves to everything between the prefix and
\* the extension, <id>_<rest>.<ext> without the prefix resolves to <id>, and the
\* two file names of the documentation resolve as documented.
C8_ResolvesBothConventions ==
    resolved.done =>
        /\ (resolved.parts[1] = PotholeToken /\ Len(resolved.parts) >= MinUploadParts) =>
               PotholePrefix \o resolved.id = WithUnderscores(resolved.parts)
        /\ (resolved.parts[1] # PotholeToken /\ Len(resolved.parts) >= 2) =>
               resolved.id = resolved.parts[1]
        /\ resolved.name = UploadExample => resolved.id = UploadExampleId
        /\ resolved.name = PreExample => resolved.id = PreExampleId

\* the crowd-upload example has been resolved
C8_Witness ==
    /\ resolved.done
    /\ resolved.name = UploadExample
    /\ resolved.id = UploadExampleId

(***************************************************************************)
(* The metadata files and load_metadata.                                   *)
(***************************************************************************)
\* entry.get("id") or entry.get("image_id"): an absent or empty id gives way
EntryKey(entry) == IF entry.id # <<>> THEN entry.id ELSE entry.image_id

RECURSIVE MapOfEntries(_)
\* metadata_map of a list: each entry with a key is stored under it, a later
\* entry replacing an earlier one
MapOfEntries(entries) ==
    IF entries = <<>> THEN EmptyMap
    ELSE LET before == MapOfEntries(SubSeq(entries, 1, Len(entries) - 1))
             entry  == entries[Len(entries)]
         IN  IF EntryKey(entry) = <<>> THEN before
             ELSE [k \in DOMAIN before \cup {EntryKey(entry)} |->
                      IF k = EntryKey(entry) THEN entry.record ELSE before[k]]

\* load_metadata(metadata_path): an absent file gives the empty mapping,
\* json.load of a file that is not JSON raises
LoadMetadata(meta) ==
    IF meta.kind = "absent" THEN [raises |-> FALSE, map |-> EmptyMap]
    ELSE IF meta.kind = "invalid" THEN [raises |-> TRUE, map |-> EmptyMap]
    ELSE [raises |-> FALSE, map |-> MapOfEntries(meta.entries)]

\* an update that keeps the record the mapping already holds
UpdateKeepingEarlier(map, other) ==
    [k \in DOMAIN map \cup DOMAIN other |-> IF k \in DOMAIN map THEN map[k] ELSE other[k]]

\* metadata_map.update(other)
Update(map, other) ==
    [k \in DOMAIN map \cup DOMAIN other |-> IF k \in DOMAIN other THEN other[k] ELSE map[k]]

(***************************************************************************)
(* The dashboard in Local GeoJSON mode.                                    *)
(***************************************************************************)
DetectedToken == <<"_", "d", "e", "t", "e", "c", "t", "e", "d">>

\* f"{stem}_detected{suffix}"
DetectedName(name) == Stem(name) \o DetectedToken \o Suffix(name)

\* the images of pre_users
UserImages == {UploadPath(n) : n \in 1..uploaded}

\* should_run_inference(): the session has made no run yet, or an image of
\* pre_users has no *_detected counterpart in the output directory
ShouldRunInference ==
    \/ ~preload_inference_done
    \/ \E path \in UserImages : DetectedName(PathName(path)) \notin outputImages

RECURSIVE Orders(_)
\* the orders iterdir() may list a set of paths in
Orders(S) ==
    IF S = {} THEN {<<>>}
    ELSE UNION {{<<x>> \o rest : rest \in Orders(S \ {x})} : x \in S}

\* what the detector returns for an image of a batch
DetectorOutputs == {dets \in DetectionSets : Len(dets) <= MaxBatchDets}

\* a run that leaves the output directory as it finds it
RunStartKeepingOutputs(userOrder) ==
    /\ pc = "idle"
    /\ ShouldRunInference
    /\ LET pre   == LoadMetadata(preMeta)
           users == LoadMetadata(usersMeta)
       IN  IF pre.raises \/ users.raises
           THEN /\ preload_inference_done' = TRUE
                /\ UNCHANGED <<file, metadata_map, outputImages, pc, queue, results>>
           ELSE /\ metadata_map' = Update(Update(EmptyMap, pre.map), users.map)
                /\ queue' = <<PrePath>> \o userOrder
                /\ results' = <<>>
                /\ pc' = "batch"
                /\ UNCHANGED <<file, outputImages, preload_inference_done>>
    /\ UNCHANGED <<ret, log, call, preMeta, usersMeta, uploaded, uploadPc, resolved, writers, annotated, fetchVars>>

\* run_inference_on_images up to the call of process_image_batch: the images of
\* pre and of pre_users are listed, the two metadata files are loaded and
\* merged, the output directory is removed and made anew.  A metadata file that
\* does not load ends the run before anything is removed, and the caller marks
\* the session as done.
RunStart(userOrder) ==
    /\ pc = "idle"
    /\ ShouldRunInference
    /\ LET pre   == LoadMetadata(preMeta)
           users == LoadMetadata(usersMeta)
       IN  IF pre.raises \/ users.raises
           THEN /\ preload_inference_done' = TRUE
                /\ UNCHANGED <<file, metadata_map, outputImages, pc, queue, results>>
           ELSE /\ metadata_map' = Update(Update(EmptyMap, pre.map), users.map)
                /\ outputImages' = {}
                /\ file' = AbsentFile
                /\ queue' = <<PrePath>> \o userOrder
                /\ results' = <<>>
                /\ pc' = "batch"
                /\ UNCHANGED preload_inference_done
    /\ UNCHANGED <<ret, log, call, preMeta, usersMeta, uploaded, uploadPc, resolved, writers, annotated, fetchVars>>

\* an iteration that raises and leaves no entry
ProcessImageErrorSkipping ==
    /\ pc = "batch"
    /\ queue # <<>>
    /\ queue' = Tail(queue)
    /\ UNCHANGED <<file, metadata_map, ret, log, call, preMeta, usersMeta, uploaded,
                   uploadPc, outputImages, preload_inference_done, pc, results, resolved,
                   writers, annotated, fetchVars>>

\* one iteration of process_image_batch's loop, the detector raising
ProcessImageError ==
    /\ pc = "batch"
    /\ queue # <<>>
    /\ results' = Append(results, [image_path |-> Head(queue), error |-> TRUE,
                                   feature |-> NoFeature])
    /\ queue' = Tail(queue)
    /\ UNCHANGED <<file, metadata_map, ret, log, call, preMeta, usersMeta, uploaded,
                   uploadPc, outputImages, preload_inference_done, pc, resolved, writers, annotated, fetchVars>>

\* one iteration of process_image_batch's loop: run_inference saves the
\* annotated image, then save_detections_to_json is called if there is a
\* mapping that is not empty; an exception of the call makes an error entry
ProcessImage(dets) ==
    /\ pc = "batch"
    /\ queue # <<>>
    /\ outputImages' = outputImages \cup {DetectedName(PathName(Head(queue)))}
    /\ IF metadata_map = EmptyMap
       THEN /\ results' = Append(results, [image_path |-> Head(queue), error |-> FALSE,
                                           feature |-> NoFeature])
            /\ UNCHANGED <<file, ret, log, call>>
       ELSE \E r \in {SaveDetectionsToJson(Head(queue), dets, metadata_map, file,
                                           ConfidenceThreshold)} :
               /\ file' = r.file
               /\ ret' = r.ret
               /\ log' = r.log
               /\ call' = CallOf(Head(queue), dets, metadata_map, ConfidenceThreshold)
               /\ results' = Append(results, [image_path |-> Head(queue),
                                              error |-> r.ret.kind = "raised",
                                              feature |-> r.ret.feature])
    /\ queue' = Tail(queue)
    /\ UNCHANGED <<metadata_map, preMeta, usersMeta, uploaded, uploadPc,
                   preload_inference_done, pc, resolved, writers, annotated, fetchVars>>

\* the batch is over: results is not empty, the session is marked as done
RunEnd ==
    /\ pc = "batch"
    /\ queue = <<>>
    /\ pc' = "idle"
    /\ preload_inference_done' = TRUE
    /\ UNCHANGED <<file, metadata_map, ret, log, call, preMeta, usersMeta, uploaded,
                   uploadPc, outputImages, queue, results, resolved, writers, annotated, fetchVars>>

(***************************************************************************)
(* The upload front end.                                                   *)
(***************************************************************************)
\* an upload that appends the metadata entry before the image is written
UploadEntryBeforeImage ==
    /\ uploadPc = "idle"
    /\ uploaded < MaxUploads
    /\ usersMeta' =
          [ kind    |-> "list",
            entries |-> Append(IF usersMeta.kind = "list" THEN usersMeta.entries ELSE <<>>,
                               [id |-> <<>>, image_id |-> Timestamp(uploaded + 1),
                                record |-> WithCoordinates]) ]
    /\ uploadPc' = "written"
    /\ UNCHANGED <<aggVars, preMeta, uploaded, outputImages, preload_inference_done,
                   pc, queue, results, resolved, writers, annotated, fetchVars>>

\* the image is written to pre_users
UploadWriteImage ==
    /\ uploadPc = "idle"
    /\ uploaded < MaxUploads
    /\ uploaded' = uploaded + 1
    /\ uploadPc' = "written"
    /\ UNCHANGED <<aggVars, preMeta, usersMeta, outputImages, preload_inference_done,
                   pc, queue, results, resolved, writers, annotated, fetchVars>>

\* metadata_entry of the image just written
UploadEntry == [id |-> <<>>, image_id |-> Timestamp(uploaded), record |-> WithCoordinates]

\* the metadata list is loaded (empty when absent or not JSON), the entry is
\* appended, the list is saved; a save that fails leaves the file as it was
UploadSaveMetadata(saved) ==
    /\ uploadPc = "written"
    /\ usersMeta' =
          IF saved
          THEN [ kind    |-> "list",
                 entries |-> Append(IF usersMeta.kind = "list" THEN usersMeta.entries
                                    ELSE <<>>, UploadEntry) ]
          ELSE usersMeta
    /\ uploadPc' = "idle"
    /\ UNCHANGED <<aggVars, preMeta, uploaded, outputImages, preload_inference_done,
                   pc, queue, results, resolved, writers, annotated, fetchVars>>

(***************************************************************************)
(* The system: one dashboard session and the upload front end.             *)
(***************************************************************************)
Init ==
    /\ file = AbsentFile
    /\ metadata_map = EmptyMap
    /\ InitCall
    /\ InitSystem

Next ==
    \/ \E userOrder \in Orders(UserImages) : RunStart(userOrder)
    \/ \E dets \in DetectorOutputs : ProcessImage(dets)
    \/ ProcessImageError
    \/ RunEnd
    \/ UploadWriteImage
    \/ \E saved \in BOOLEAN : UploadSaveMetadata(saved)

Spec == Init /\ [][Next]_vars

\* the same system with whatever the metadata files held before
InitAnyMetadata ==
    /\ file = AbsentFile
    /\ metadata_map = EmptyMap
    /\ InitCall
    /\ preMeta \in { AbsentMeta, [kind |-> "invalid", entries |-> <<>>],
                     [kind |-> "list", entries |-> <<PreEntry>>] }
    /\ usersMeta \in {AbsentMeta, [kind |-> "invalid", entries |-> <<>>]}
    /\ uploaded = 0
    /\ uploadPc = "idle"
    /\ outputImages = {}
    /\ preload_inference_done = FALSE
    /\ pc = "idle"
    /\ queue = <<>>
    /\ results = <<>>

SpecAnyMetadata == InitAnyMetadata /\ [][Next]_vars

\* C7 as stated: a run started after the session's first one (the incremental
\* case: an image of pre_users lacks its counterpart) leaves out every image
\* whose *_detected counterpart is in the output directory.
C7_IncrementalSkipsProcessed ==
    [][ (pc = "idle" /\ pc' = "batch" /\ preload_inference_done) =>
            \A i \in 1..Len(queue') :
                DetectedName(PathName(queue'[i])) \notin outputImages ]_vars

\* C10 as stated: a run started while a metadata file is missing or is not
\* JSON goes on to process the images, with the records of every file that is
\* a list in its mapping.
C10_BadSourceNotFatal ==
    [][ (/\ pc = "idle"
         /\ pc' = "batch" \/ (preload_inference_done' /\ ~preload_inference_done)
         /\ \E meta \in {preMeta, usersMeta} : meta.kind \in {"absent", "invalid"}) =>
            /\ pc' = "batch"
            /\ queue' # <<>>
            /\ \A meta \in {preMeta, usersMeta} :
                   meta.kind = "list" =>
                       \A i \in 1..Len(meta.entries) :
                           EntryKey(meta.entries[i]) \in DOMAIN metadata_map' ]_vars

(***************************************************************************)
(* The dashboard alone, started on metadata files whose entries share      *)
(* identifiers.                                                            *)
(***************************************************************************)
\* entries of pre/metadata.json: two records under the same "id"
PreEntries ==
    { [id |-> PreId, image_id |-> <<>>, record |-> r] : r \in {WithCoordinates, NoGeometry} }

\* entries of pre_users/metadata.json: one under the "image_id" of the
\* pre-loaded image, one under the "image_id" of an upload
UsersEntries ==
    { [id |-> <<>>, image_id |-> PreId, record |-> NoCoordinates],
      [id |-> <<>>, image_id |-> Timestamp(1), record |-> WithCoordinates] }

MetaOf(entries) == [kind |-> "list", entries |-> entries]

InitMerge ==
    /\ file = AbsentFile
    /\ metadata_map = EmptyMap
    /\ InitCall
    /\ preMeta \in {MetaOf(e) : e \in SeqsUpTo(PreEntries, MaxEntries)}
    /\ usersMeta \in {MetaOf(e) : e \in SeqsUpTo(UsersEntries, MaxEntries)}
    /\ uploaded = 0
    /\ uploadPc = "idle"
    /\ outputImages = {}
    /\ preload_inference_done = FALSE
    /\ pc = "idle"
    /\ queue = <<>>
    /\ results = <<>>

NextDashboard ==
    \/ \E userOrder \in Orders(UserImages) : RunStart(userOrder)
    \/ \E dets \in DetectorOutputs : ProcessImage(dets)
    \/ ProcessImageError
    \/ RunEnd

SpecMerge == InitMerge /\ [][NextDashboard]_vars

\* the identifiers a list of entries stores records under
KeysOf(entries) == {EntryKey(entries[i]) : i \in 1..Len(entries)} \ {<<>>}

\* the record of the last entry of the list stored under the identifier
LastRecord(entries, k) ==
    LET last == CHOOSE i \in 1..Len(entries) :
                    /\ EntryKey(entries[i]) = k
                    /\ \A j \in (i + 1)..Len(entries) : EntryKey(entries[j]) # k
    IN  entries[last].record

\* C11: the mapping a run starts with holds, for every identifier of the
\* crowd-upload list, the record of that list's last entry under it, and for
\* every other identifier of the pre-loaded list the record of that list's last
\* entry under it.
C11_LaterSourceOverwrites ==
    [][ (pc = "idle" /\ pc' = "batch") =>
            /\ DOMAIN metadata_map' = KeysOf(preMeta.entries) \cup KeysOf(usersMeta.entries)
            /\ \A k \in DOMAIN metadata_map' :
                   metadata_map'[k] =
                       IF k \in KeysOf(usersMeta.entries)
                       THEN LastRecord(usersMeta.entries, k)
                       ELSE LastRecord(preMeta.entries, k) ]_vars

\* a run whose pre-loaded list holds two different records for the pre-loaded
\* image and whose crowd-upload list holds a third one
C11_Witness ==
    /\ pc = "batch"
    /\ Len(preMeta.entries) = 2
    /\ preMeta.entries[1].record # preMeta.entries[2].record
    /\ PreId \in KeysOf(usersMeta.entries)
    /\ metadata_map[PreId] = NoCoordinates

(***************************************************************************)
(* The write of the collection interrupted: open(output_json_path, "w")    *)
(* has emptied the file and json.dump has not written all of the document. *)
(***************************************************************************)
\* what the file holds then: nothing, or the beginning of a JSON document
TruncatedFile == [kind |-> "notjson", features |-> <<>>, summary |-> NoSummary]

Crashed == [kind |-> "crashed", feature |-> NoFeature]

\* s is the beginning of t
IsPrefix(s, t) == Len(s) <= Len(t) /\ SubSeq(t, 1, Len(s)) = s

\* the command-line run ends inside the write of a call that had a Report to
\* add
CrashDuringSave(image_path, dets) ==
    /\ Len(LoadedFeatures(file)) < MaxFeatures
    /\ \E r \in {SaveDetectionsToJson(image_path, dets, metadata_map, file,
                                      ConfidenceThreshold)} :
           /\ r.ret.kind = "feature"
           /\ file' = TruncatedFile
           /\ ret' = Crashed
           /\ log' = r.log
    /\ call' = CallOf(image_path, dets, metadata_map, ConfidenceThreshold)
    /\ UNCHANGED <<metadata_map, sysVars, resolved, writers, annotated, fetchVars>>

NextCrash ==
    \/ \E image_path \in ImagePaths, dets \in DetectionSets :
           CallSaveDetections(image_path, dets)
    \/ \E image_path \in ImagePaths, dets \in DetectionSets :
           CrashDuringSave(image_path, dets)

SpecCrash == InitAggregate /\ [][NextCrash]_vars

\* C13 as stated: whatever happens to a call, the file stays absent or a
\* complete collection, and loading it yields every Report it yielded before.
C13_CrashKeepsCommitted ==
    [][ /\ file'.kind \in {"absent", "collection"}
        /\ IsPrefix(LoadedFeatures(file), LoadedFeatures(file')) ]_vars

(***************************************************************************)
(* The dashboard and the upload front end, with writes of the collection   *)
(* that fail.                                                              *)
(***************************************************************************)
\* one iteration of process_image_batch's loop in which json.dump raises
\* (no space left, an I/O error) after the file has been opened for writing:
\* the exception is caught by the loop and makes an error entry
ProcessImageSaveFails(dets) ==
    /\ pc = "batch"
    /\ queue # <<>>
    /\ metadata_map # EmptyMap
    /\ outputImages' = outputImages \cup {DetectedName(PathName(Head(queue)))}
    /\ \E r \in {SaveDetectionsToJson(Head(queue), dets, metadata_map, file,
                                      ConfidenceThreshold)} :
           /\ r.ret.kind = "feature"
           /\ file' = TruncatedFile
           /\ ret' = Raises
           /\ log' = r.log
    /\ call' = CallOf(Head(queue), dets, metadata_map, ConfidenceThreshold)
    /\ results' = Append(results, [image_path |-> Head(queue), error |-> TRUE,
                                   feature |-> NoFeature])
    /\ queue' = Tail(queue)
    /\ UNCHANGED <<metadata_map, preMeta, usersMeta, uploaded, uploadPc,
                   preload_inference_done, pc, resolved, writers, annotated, fetchVars>>

NextFaulty ==
    \/ \E userOrder \in Orders(UserImages) : RunStart(userOrder)
    \/ \E dets \in DetectorOutputs : ProcessImage(dets)
    \/ ProcessImageError
    \/ \E dets \in DetectorOutputs : ProcessImageSaveFails(dets)
    \/ RunEnd
    \/ UploadWriteImage
    \/ \E saved \in BOOLEAN : UploadSaveMetadata(saved)

SpecFaulty == Init /\ [][NextFaulty]_vars

\* C12 as stated: an iteration of the batch that ends in an error leaves the
\* images after it in the queue of the running batch, and the Reports the
\* collection yielded before it are still yielded after it.
C12_ErrorsContained ==
    [][ (pc = "batch" /\ Len(results') = Len(results) + 1 /\ Last(results').error) =>
            /\ pc' = "batch"
            /\ queue' = Tail(queue)
            /\ IsPrefix(LoadedFeatures(file), LoadedFeatures(file')) ]_vars

(***************************************************************************)
(* Reports are only ever added at the end.                                 *)
(***************************************************************************)
\* C14: after a call that returns a Report, the features the collection file
\* held before are the beginning of the features it holds now, in the same
\* order, and the only feature after them is the Report returned.
C14_AppendOnly ==
    [][ ret'.kind = "feature" =>
            /\ file'.kind = "collection"
            /\ IsPrefix(LoadedFeatures(file), file'.features)
            /\ SubSeq(file'.features, Len(LoadedFeatures(file)) + 1, Len(file'.features))
                  = <<ret'.feature>> ]_vars

\* a Report returned into a collection whose first feature is a different
\* Report of an earlier run
C14_Witness ==
    /\ ret.kind = "feature"
    /\ file.kind = "collection"
    /\ file.features = <<PriorFeature, ret.feature>>
    /\ ret.feature # PriorFeature

(***************************************************************************)
(* The two ingestion programs name an image and write its metadata entry;  *)
(* extract_image_id is applied to the name.                                *)
(***************************************************************************)
\* strings of digits: dates, times, milliseconds, Mapillary ids, captured_at
DigitParts == NameParts \ {PotholeToken}

\* datetime.now().strftime("%Y%m%d_%H%M%S_%f")[:-3]
Timestamps == {WithUnderscores(<<d, t, ms>>) : d \in DigitParts, t \in DigitParts, ms \in DigitParts}

\* image_data.get("captured_at", "unknown"), made a string
CapturedAts ==
    DigitParts \cup { <<"u", "n", "k", "n", "o", "w", "n">>,
                      <<"1", "0", ":", "3", "0", ":", "0", "0", ".", "5", "Z">> }

\* s.replace(old, new) for one-character old and new
Replace(s, old, new) == [i \in 1..Len(s) |-> IF s[i] = old THEN new ELSE s[i]]

\* f"{image_id}_{captured_at.replace(':', '-')}.jpg"
DownloadFileName(image_id, captured_at) ==
    image_id \o <<Underscore>> \o Replace(captured_at, ":", "-") \o JpgSuffix

\* f"pothole_{timestamp}.jpg"
UploadFileName(timestamp) == PotholePrefix \o timestamp \o JpgSuffix

InitIngest ==
    /\ file = AbsentFile
    /\ metadata_map = EmptyMap
    /\ InitCall
    /\ preMeta = AbsentMeta
    /\ usersMeta = AbsentMeta
    /\ uploaded = 0
    /\ uploadPc = "idle"
    /\ outputImages = {}
    /\ preload_inference_done = FALSE
    /\ pc = "idle"
    /\ queue = <<>>
    /\ results = <<>>

\* the downloader saves the entry of an image and downloads the image
DownloadImage(image_id, captured_at) ==
    /\ resolved.name = <<>>
    /\ preMeta' = MetaOf(<<[id |-> image_id, image_id |-> <<>>, record |-> WithCoordinates]>>)
    /\ resolved' = [resolved EXCEPT !.name = DownloadFileName(image_id, captured_at)]
    /\ UNCHANGED <<aggVars, usersMeta, uploaded, uploadPc, outputImages,
                   preload_inference_done, pc, queue, results, writers, annotated, fetchVars>>

\* the upload front end writes an image and saves its entry
UploadImage(timestamp) ==
    /\ resolved.name = <<>>
    /\ usersMeta' = MetaOf(<<[id |-> <<>>, image_id |-> timestamp, record |-> WithCoordinates]>>)
    /\ resolved' = [resolved EXCEPT !.name = UploadFileName(timestamp)]
    /\ UNCHANGED <<aggVars, preMeta, uploaded, uploadPc, outputImages,
                   preload_inference_done, pc, queue, results, writers, annotated, fetchVars>>

\* extract_image_id applied to the name of the ingested image
ResolveIngested ==
    /\ resolved.name # <<>>
    /\ Resolve

NextIngest ==
    \/ \E image_id \in DigitParts, captured_at \in CapturedAts :
           DownloadImage(image_id, captured_at)
    \/ \E timestamp \in Timestamps : UploadImage(timestamp)
    \/ ResolveIngested

SpecIngest == InitIngest /\ [][NextIngest]_vars

\* C15: the identifier resolved from the name of an ingested image is the key
\* load_metadata stores the image's entry under, so the mapping merged from the
\* two files holds a record for it.
C15_FilenameResolvesToRecordId ==
    resolved.done =>
        /\ \A meta \in {preMeta, usersMeta} :
               \A i \in 1..Len(meta.entries) : resolved.id = EntryKey(meta.entries[i])
        /\ resolved.id \in DOMAIN Update(LoadMetadata(preMeta).map, LoadMetadata(usersMeta).map)

\* an upload resolved to its timestamp and a download whose captured_at held
\* colons and a dot resolved to its id
C15_Witness ==
    /\ resolved.done
    /\ \/ /\ usersMeta.kind = "list"
          /\ resolved.name = UploadExample
          /\ resolved.id = usersMeta.entries[1].image_id
       \/ /\ preMeta.kind = "list"
          /\ \E i \in 1..Len(resolved.name) : resolved.name[i] = "-"
          /\ resolved.id = preMeta.entries[1].id

(***************************************************************************)
(* Two dashboard sessions of the same server, each a thread that calls     *)
(* save_detections_to_json on the same detections.json.  Nothing in the    *)
(* code takes a lock, so the call of one session may run between the load  *)
(* and the write of the other.                                             *)
(***************************************************************************)
InitSessions ==
    /\ file = AbsentFile
    /\ metadata_map = [k \in {PreId} |-> WithCoordinates]
    /\ InitCall
    /\ InitSystem

\* save_detections_to_json up to the summary: the detections are filtered, the
\* record is looked up, the file is loaded, the feature is appended and the
\* summary is computed, all in memory; a call that returns null ends here
SessionBuild(w, dets) ==
    /\ writers[w].pc = "idle"
    /\ Len(LoadedFeatures(file)) < MaxFeatures
    /\ \E r \in {SaveDetectionsToJson(PrePath, dets, metadata_map, file,
                                      ConfidenceThreshold)} :
           /\ log' = r.log
           /\ IF r.ret.kind = "feature"
              THEN /\ writers' = [writers EXCEPT ![w] = [pc |-> "built", doc |-> r.file,
                                                         feature |-> r.ret.feature]]
                   /\ UNCHANGED ret
              ELSE /\ ret' = r.ret
                   /\ UNCHANGED writers
    /\ call' = CallOf(PrePath, dets, metadata_map, ConfidenceThreshold)
    /\ UNCHANGED <<file, metadata_map, sysVars, resolved, annotated, fetchVars>>

\* the rest of the call: the document is written over the file and the
\* feature is returned
SessionWrite(w) ==
    /\ writers[w].pc = "built"
    /\ file' = writers[w].doc
    /\ ret' = Returns(writers[w].feature)
    /\ writers' = [writers EXCEPT ![w] = NotWriting]
    /\ UNCHANGED <<metadata_map, log, call, sysVars, resolved, annotated, fetchVars>>

NextSessions ==
    \/ \E w \in Sessions, dets \in DetectorOutputs : SessionBuild(w, dets)
    \/ \E w \in Sessions : SessionWrite(w)

SpecSessions == InitSessions /\ [][NextSessions]_vars

\* C16 as stated: with two sessions writing, every write of the file keeps the
\* Reports the file held and adds the one Report of the writing call, and the
\* summary written is the summary of the features written.
C16_NoLostReport ==
    [][ file' # file =>
            /\ file'.kind = "collection"
            /\ file'.features = Append(LoadedFeatures(file), ret'.feature)
            /\ file'.summary = Summary(file'.features) ]_vars

C18_NoLocationNoReport ==
    [][ (call'.kept >= 1 /\ call'.lookup \in {"absent", "nogeometry", "nocoordinates"}) =>
            (ret'.kind = "none" /\ file' = file) ]_vars

\* a call with two detections at the threshold for an image whose record has
\* no geometry, made on a collection that holds a Report
C18_Witness ==
    /\ call.kept = 2
    /\ call.lookup = "nogeometry"
    /\ ret.kind = "none"
    /\ log = "no metadata found"
    /\ file.kind = "collection"
    /\ file.features = <<PriorFeature>>

(***************************************************************************)
(* The order of the Reports of a batch.                                    *)
(***************************************************************************)
\* the file names of a sequence of paths
NamesOfPaths(paths) == [i \in 1..Len(paths) |-> PathName(paths[i])]

\* the image_path of each entry of results
PathsOf(entries) == [i \in 1..Len(entries) |-> entries[i].image_path]

\* the entries of results whose "feature" is a Report
Reported(entries) == SelectSeq(entries, LAMBDA e : e.feature # NoFeature)

\* C19: a batch takes its images one by one in the order of image_paths, and
\* the images of the features of the collection, in file order, are the
\* images of the batch that produced a Report, in that order.
C19_ReportsInProcessingOrder ==
    [][ /\ (pc = "batch" /\ pc' = "batch") =>
               PathsOf(results') \o queue' = PathsOf(results) \o queue
        /\ [i \in 1..Len(LoadedFeatures(file')) |-> file'.features[i].image]
               = NamesOfPaths(PathsOf(Reported(results'))) ]_vars

\* a batch of two images that both produced a Report, the upload listed after
\* the pre-loaded image
C19_Witness ==
    /\ Len(results) = 2
    /\ queue = <<>>
    /\ Reported(results) = results
    /\ file.kind = "collection"
    /\ <<file.features[1].image, file.features[2].image>> = <<PreName, UploadName(1)>>
    /\ file.features[2] = results[2].feature

(***************************************************************************)
(* extract_image_id applied to arbitrary file names.                       *)
(***************************************************************************)
NameChars == {Underscore, Dot, "a"}

\* every text of up to MaxNameLen characters, but "." which names no file, as
\* it is and after the upload prefix
AnyNames ==
    LET texts == SeqsUpTo(NameChars, MaxNameLen) \ {<<Dot>>}
    IN  texts \cup {PotholePrefix \o t : t \in texts}

InitResolveAny ==
    /\ resolved \in { [parts |-> <<>>, name |-> n, id |-> <<>>, done |-> FALSE] :
                         n \in AnyNames }
    /\ file = AbsentFile
    /\ metadata_map = EmptyMap
    /\ ret = NotCalled
    /\ log = "silent"
    /\ call = NoCall
    /\ writers = NoWriters
    /\ annotated = <<>>
    /\ NotFetching
    /\ InitSystem

SpecResolveAny == InitResolveAny /\ [][Resolve]_vars

\* C20: every name resolves, to the stem without the prefix when the stem
\* starts with pothole_ and has three or more parts after it, and otherwise to
\* what precedes the stem's first underscore, the whole stem if it has none.
C20_FallsThroughToConventionB ==
    resolved.done =>
        LET stem        == Stem(resolved.name)
            underscores == {i \in 1..Len(stem) : stem[i] = Underscore}
            first       == CHOOSE i \in underscores : \A j \in underscores : i <= j
        IN  resolved.id =
                IF StartsWith(stem, PotholePrefix) /\ Cardinality(underscores) >= 3
                THEN SubSeq(stem, Len(PotholePrefix) + 1, Len(stem))
                ELSE IF underscores = {} THEN stem
                ELSE SubSeq(stem, 1, first - 1)

\* a name with the prefix and two parts after it, resolved to what precedes
\* its first underscore
C20_Witness ==
    /\ resolved.done
    /\ resolved.name = PotholePrefix \o <<"a", "_", "a", ".", "a">>
    /\ resolved.id = PotholeToken

(***************************************************************************)
(* run_inference and save_detections_to_json on detector outputs with      *)
(* their boxes.                                                            *)
(***************************************************************************)
\* image.size
ImageSize == <<10, 10>>

\* [x_center, y_center, width, height]: a box inside the image, a box without
\* width, a box beyond the right edge
Boxes == { <<5, 5, 4, 4>>, <<5, 5, 0, 4>>, <<20, 5, 4, 4>> }

\* what the detector returns for an image: boxes, labels and scores
BoxedOutputs ==
    SeqsUpTo({[box |-> b, label |-> d.label, score |-> d.score] : b \in Boxes, d \in Detection},
             MaxBatchDets)

\* max(0, min(v, upper))
Clamp(v, upper) == IF v < 0 THEN 0 ELSE IF v > upper THEN upper ELSE v

\* the corners of a box, clamped to the image, in half pixels
Corners(box) ==
    [ x1 |-> Clamp(2 * box[1] - box[3], 2 * ImageSize[1]),
      y1 |-> Clamp(2 * box[2] - box[4], 2 * ImageSize[2]),
      x2 |-> Clamp(2 * box[1] + box[3], 2 * ImageSize[1]),
      y2 |-> Clamp(2 * box[2] + box[4], 2 * ImageSize[2]) ]

\* x2 - x1 < 1 or y2 - y1 < 1
Degenerate(box) ==
    LET c == Corners(box) IN c.x2 - c.x1 < 2 \/ c.y2 - c.y1 < 2

\* draw_bounding_boxes(image, boxes, labels, scores, threshold): the
\* rectangles drawn, one for each detection that is neither below the
\* threshold nor degenerate
DrawBoundingBoxes(boxed, threshold) ==
    LET shown == SelectSeq(boxed, LAMBDA d : ~(d.score < threshold) /\ ~Degenerate(d.box))
    IN  [i \in 1..Len(shown) |-> [corners |-> Corners(shown[i].box), label |-> shown[i].label]]

\* the labels and scores of the detections that are drawn
LabelsAndScoresOfDrawn(boxed) ==
    LET shown == SelectSeq(boxed, LAMBDA d : ~Degenerate(d.box))
    IN  [i \in 1..Len(shown) |-> [label |-> shown[i].label, score |-> shown[i].score]]

\* zip(labels, scores): save_detections_to_json takes boxes and reads none
LabelsAndScores(boxed) ==
    [i \in 1..Len(boxed) |-> [label |-> boxed[i].label, score |-> boxed[i].score]]

InitBoxes ==
    /\ file = AbsentFile
    /\ metadata_map = [k \in {PreId} |-> WithCoordinates]
    /\ InitCall
    /\ InitSystem

\* the command-line run on one image, made twice: run_inference draws the
\* boxes, save_detections_to_json aggregates
RunInferenceWithBoxes(boxed) ==
    /\ Len(annotated) < 2
    /\ \E r \in {SaveDetectionsToJson(PrePath, LabelsAndScores(boxed), metadata_map, file,
                                      ConfidenceThreshold)} :
           /\ file' = r.file
           /\ ret' = r.ret
           /\ log' = r.log
           /\ annotated' = Append(annotated,
                                  [ detected |-> boxed,
                                    drawn    |-> DrawBoundingBoxes(boxed, ConfidenceThreshold),
                                    ret      |-> r.ret ])
    /\ call' = CallOf(PrePath, LabelsAndScores(boxed), metadata_map, ConfidenceThreshold)
    /\ UNCHANGED <<metadata_map, sysVars, resolved, writers, fetchVars>>

NextBoxes == \E boxed \in BoxedOutputs : RunInferenceWithBoxes(boxed)

SpecBoxes == InitBoxes /\ [][NextBoxes]_vars

\* C21: two runs whose detector outputs have the same labels and the same
\* scores, whatever their boxes, return the same Report with the same counts,
\* and a Report counts every detection at or above the threshold, drawn or
\* not.
C21_BoxesDoNotChangeReport ==
    /\ \A i \in 1..Len(annotated) : \A j \in 1..Len(annotated) :
           (/\ Len(annotated[i].detected) = Len(annotated[j].detected)
            /\ \A k \in 1..Len(annotated[i].detected) :
                   /\ annotated[i].detected[k].label = annotated[j].detected[k].label
                   /\ annotated[i].detected[k].score = annotated[j].detected[k].score)
               => annotated[i].ret = annotated[j].ret
    /\ \A i \in 1..Len(annotated) :
           LET kept == {k \in 1..Len(annotated[i].detected) :
                           annotated[i].detected[k].score >= ConfidenceThreshold}
           IN  /\ annotated[i].ret.kind = "feature" <=> kept # {}
               /\ kept # {} =>
                      SumSeq([n \in 1..Len(annotated[i].ret.feature.labels) |->
                                 annotated[i].ret.feature.labels[n].count]) = Cardinality(kept)

\* two runs with the same label and score, the first with a box that is drawn,
\* the second with a box that is skipped, and the same Report twice in the file
C21_Witness ==
    /\ Len(annotated) = 2
    /\ Len(annotated[1].drawn) = 1
    /\ annotated[2].drawn = <<>>
    /\ annotated[1].ret.kind = "feature"
    /\ annotated[2].ret = annotated[1].ret
    /\ file.features = <<annotated[1].ret.feature, annotated[2].ret.feature>>

(***************************************************************************)
(* The dashboard with a file in pre_users that has the name of the         *)
(* pre-loaded image.                                                       *)
(***************************************************************************)
\* pre_users/37_15.jpg
CopyPath == <<UsersDir, PreName>>

NextDuplicates ==
    \/ \E userOrder \in Orders(UserImages \cup {CopyPath}) : RunStart(userOrder)
    \/ \E dets \in DetectorOutputs : ProcessImage(dets)
    \/ ProcessImageError
    \/ RunEnd
    \/ UploadWriteImage
    \/ \E saved \in BOOLEAN : UploadSaveMetadata(saved)

SpecDuplicates == Init /\ [][NextDuplicates]_vars

\* C22 as stated: the two paths with the same file name are both processed,
\* each may add its Report, and each image processed without an error has an
\* annotated image of its own in the output directory.
C22_EachPathOwnOutput ==
    (pc = "batch" /\ queue = <<>>) =>
        /\ \E i \in 1..Len(results) : \E j \in 1..Len(results) :
               /\ results[i].image_path = PrePath
               /\ results[j].image_path = CopyPath
        /\ Len(LoadedFeatures(file)) = Len(Reported(results))
        /\ Cardinality(outputImages)
              = Cardinality({k \in 1..Len(results) : ~results[k].error})

(***************************************************************************)
(* The labels and the extremes of the summary.                             *)
(***************************************************************************)
\* C23: whenever the collection is persisted, summary.unique_labels lists the
\* labels of the LabelStat entries of all its features, each once, in
\* ascending order, and confidence_stats.min and max are the least
\* min_confidence and the greatest max_confidence of all those entries.
C23_UniqueLabelsAndExtremes ==
    [][ (file' # file /\ file'.kind = "collection") =>
            LET stats  == AllStats(file'.features)
                labels == file'.summary.unique_labels
            IN  /\ {labels[i] : i \in 1..Len(labels)} = {stats[i].label : i \in 1..Len(stats)}
                /\ \A i \in 1..Len(labels) : \A j \in 1..Len(labels) :
                       i < j => labels[i] < labels[j]
                /\ \E i \in 1..Len(stats) : file'.summary.min = stats[i].min_confidence
                /\ \A i \in 1..Len(stats) : file'.summary.min <= stats[i].min_confidence
                /\ \E i \in 1..Len(stats) : file'.summary.max = stats[i].max_confidence
                /\ \A i \in 1..Len(stats) : file'.summary.max >= stats[i].max_confidence ]_vars

\* a collection of two features with one label each, the smaller label and the
\* greater confidence in the second feature
C23_Witness ==
    /\ file.kind = "collection"
    /\ Len(file.features) = 2
    /\ file.features[1].labels[1].label = 2
    /\ file.features[2].labels[1].label = 1
    /\ file.summary.unique_labels = <<1, 2>>
    /\ file.summary.min = file.features[1].labels[1].min_confidence
    /\ file.summary.max = file.features[2].labels[1].max_confidence
    /\ file.summary.min < file.summary.max

(***************************************************************************)
(* The collection between two images of a batch.                           *)
(***************************************************************************)
\* C24: whenever a batch is between two images, or past its last one, the
\* collection file holds the Report of every image processed so far that
\* produced one, so stopping there loses none.
C24_PersistedAfterEachImage ==
    pc = "batch" =>
        LoadedFeatures(file)
            = [i \in 1..Len(Reported(results)) |-> Reported(results)[i].feature]

\* a batch about to start its second image, the Report of the first in the
\* file
C24_Witness ==
    /\ pc = "batch"
    /\ Len(queue) = 1
    /\ Len(results) = 1
    /\ results[1].feature # NoFeature
    /\ file.kind = "collection"
    /\ file.features = <<results[1].feature>>

(***************************************************************************)
(* The dashboard refreshing for ever: the script sleeps five seconds and   *)
(* reruns, and an upload signal or a new mtime of the metadata file only   *)
(* makes it rerun sooner.  A run that may start does start, a batch goes   *)
(* on to its end, and the upload front end saves the entry of an image it  *)
(* has written.                                                            *)
(***************************************************************************)
Fairness ==
    /\ WF_vars(\E userOrder \in Orders(UserImages) : RunStart(userOrder))
    /\ WF_vars(\E dets \in DetectorOutputs : ProcessImage(dets))
    /\ WF_vars(RunEnd)
    /\ WF_vars(UploadSaveMetadata(TRUE))

SpecLive == Init /\ [][Next]_vars /\ Fairness

\* the first upload is complete: its image is in pre_users and its entry is in
\* the metadata list
UploadIngested ==
    /\ uploaded >= 1
    /\ uploadPc = "idle"
    /\ usersMeta.kind = "list"
    /\ \E i \in 1..Len(usersMeta.entries) : usersMeta.entries[i].image_id = Timestamp(1)

\* the collection holds a Report of the first upload
UploadReported ==
    \E i \in 1..Len(LoadedFeatures(file)) : file.features[i].image = UploadName(1)

\* C25 as stated: once an upload is complete and the detector has found a
\* detection at or above the threshold in its image, the collection comes to
\* hold a Report of it.
C25_UploadEventuallyReported ==
    (UploadIngested /\ call.image_path = UploadPath(1) /\ call.kept >= 1) ~> UploadReported

(***************************************************************************)
(* What process_image_batch returns.                                       *)
(***************************************************************************)
\* C26: a batch starts with no entry; each iteration takes the first image
\* left, appends one entry for it and changes no earlier entry; an entry with
\* an error carries no feature; the batch returns when no image is left, so
\* results holds one entry per image, in the order of image_paths.
C26_OneEntryPerImageInOrder ==
    [][ /\ (pc = "idle" /\ pc' = "batch") => results' = <<>>
        /\ (pc = "batch" /\ pc' = "batch" /\ <<queue, results>>' # <<queue, results>>) =>
               /\ queue # <<>>
               /\ queue' = Tail(queue)
               /\ Len(results') = Len(results) + 1
               /\ SubSeq(results', 1, Len(results)) = results
               /\ Last(results').image_path = Head(queue)
               /\ Last(results').error \in BOOLEAN
               /\ Last(results').error => Last(results').feature = NoFeature
        /\ (pc = "batch" /\ pc' = "idle") => (queue = <<>> /\ results' = results) ]_vars

\* a batch of two images returned: an error entry for the first, an entry
\* with a feature for the second
C26_Witness ==
    /\ pc = "idle"
    /\ PathsOf(results) = <<PrePath, UploadPath(1)>>
    /\ results[1].error
    /\ ~results[2].error
    /\ results[2].feature # NoFeature

(***************************************************************************)
(* Refreshes after a completed run.                                        *)
(***************************************************************************)
\* the last batch returned, with an entry for every image of pre_users
RunCompletedOverImages ==
    /\ pc = "idle"
    /\ preload_inference_done
    /\ UserImages \subseteq {results[i].image_path : i \in 1..Len(results)}

\* C27: once a run has completed over the images of pre_users and
\* preload_inference_done is set, should_run_inference() returns False, also
\* when the processing of an image ended in an error.
C27_ReprocessingQuiesces == RunCompletedOverImages => ~ShouldRunInference

(***************************************************************************)
(* The statistics of a Report.                                             *)
(***************************************************************************)
\* C28: the Report a call appends counts at least one detection for each of
\* its labels, has min_confidence <= avg_confidence <= max_confidence with
\* all three at or above the threshold of the call, and names no label
\* twice.
C28_LabelStatsWellFormed ==
    [][ ReportAppended =>
            LET labels == Last(file'.features).labels
            IN  /\ labels # <<>>
                /\ \A i \in 1..Len(labels) :
                       /\ labels[i].count >= 1
                       /\ labels[i].min_confidence <= labels[i].avg_confidence
                       /\ labels[i].avg_confidence <= labels[i].max_confidence
                       /\ labels[i].min_confidence * ScoreUnitsPerRounded >= ConfidenceThreshold
                /\ \A i \in 1..Len(labels) : \A j \in 1..Len(labels) :
                       labels[i].label = labels[j].label => i = j ]_vars

\* a persisted Report with a label seen twice, at the threshold and above it
C28_Witness ==
    /\ ret.kind = "feature"
    /\ file.kind = "collection"
    /\ file.features # <<>>
    /\ Last(file.features) = ret.feature
    /\ \E i \in 1..Len(ret.feature.labels) :
           /\ ret.feature.labels[i].count = 2
           /\ ret.feature.labels[i].min_confidence * ScoreUnitsPerRounded = ConfidenceThreshold
           /\ ret.feature.labels[i].min_confidence < ret.feature.labels[i].avg_confidence
           /\ ret.feature.labels[i].avg_confidence < ret.feature.labels[i].max_confidence

(***************************************************************************)
(* The order of the two writes of an upload.                               *)
(***************************************************************************)
\* every entry of the crowd-upload metadata has the id of one of the first
\* count images written to pre_users
EntryHasImage(meta, count) ==
    \A i \in 1..Len(meta.entries) :
        \E path \in {UploadPath(n) : n \in 1..count} :
            ExtractImageId(PathName(path)) = meta.entries[i].image_id

\* C29: an entry is added to the crowd-upload metadata only after its image
\* is written, so every entry names an image of pre_users; and the batch
\* makes an entry without a Report, and leaves the collection as it is, for
\* an image of pre_users that the metadata mapping has no record for.
C29_ImageBeforeEntry ==
    [][ /\ EntryHasImage(usersMeta', uploaded')
        /\ usersMeta' # usersMeta => (uploadPc = "written" /\ uploaded' = uploaded)
        /\ ( /\ pc = "batch"
             /\ queue # <<>>
             /\ queue' = Tail(queue)
             /\ Head(queue) \in UserImages
             /\ ExtractImageId(PathName(Head(queue))) \notin DOMAIN metadata_map )
           => ( /\ file' = file
                /\ Last(results').image_path = Head(queue)
                /\ Last(results').feature = NoFeature ) ]_vars

\* the save of the entry failed, and a later batch took the image, with a
\* detection at the threshold, and made no Report of it
C29_Witness ==
    /\ uploaded = 1
    /\ uploadPc = "idle"
    /\ usersMeta = AbsentMeta
    /\ pc = "batch"
    /\ results # <<>>
    /\ Last(results).image_path = UploadPath(1)
    /\ ~Last(results).error
    /\ Last(results).feature = NoFeature
    /\ call.image_path = UploadPath(1)
    /\ call.kept >= 1
    /\ call.lookup = "absent"
    /\ \A i \in 1..Len(LoadedFeatures(file)) : file.features[i].image # UploadName(1)

(***************************************************************************)
(* The downloader's paging loop.                                           *)
(***************************************************************************)
\* the images the API may describe
ImageIds == {"a", "b"}

\* data.get("data", []) of one answer: an empty page included
Pages == SeqsUpTo(ImageIds, MaxPage)

\* the answer has no paging.cursors.after
NoCursor == "absent"

\* paging.cursors.after of one answer, the empty string included
Cursors == {NoCursor, "", "t1"}

\* fetch_images_metadata(lat, lon, radius_km, limit) is called
FetchImagesMetadata(lim) ==
    /\ fetchPc = "idle"
    /\ limit' = lim
    /\ all_images' = <<>>
    /\ page_token' = NoPageToken
    /\ fetchPc' = "loop"
    /\ UNCHANGED <<aggVars, sysVars, resolved, writers, annotated>>

\* an iteration that goes on after an empty page when the answer has a cursor
FetchPageIgnoringEmpty(images, after) ==
    /\ fetchPc = "loop"
    /\ Len(all_images) < limit
    /\ all_images' = all_images \o images
    /\ IF after # NoCursor
       THEN /\ page_token' = after
            /\ UNCHANGED fetchPc
       ELSE /\ fetchPc' = "returned"
            /\ UNCHANGED page_token
    /\ UNCHANGED <<limit, aggVars, sysVars, resolved, writers, annotated>>

\* one iteration of the loop with an answer the code can read: whatever the
\* request asked for, the page holds these images and this cursor
FetchPage(images, after) ==
    /\ fetchPc = "loop"
    /\ Len(all_images) < limit
    /\ IF images = <<>>
       THEN /\ fetchPc' = "returned"
            /\ UNCHANGED <<all_images, page_token>>
       ELSE /\ all_images' = all_images \o images
            /\ IF after # NoCursor
               THEN /\ page_token' = after
                    /\ UNCHANGED fetchPc
               ELSE /\ fetchPc' = "returned"
                    /\ UNCHANGED page_token
    /\ UNCHANGED <<limit, aggVars, sysVars, resolved, writers, annotated>>

\* one iteration whose request raises a RequestException: break
FetchRequestError ==
    /\ fetchPc = "loop"
    /\ Len(all_images) < limit
    /\ fetchPc' = "returned"
    /\ UNCHANGED <<all_images, page_token, limit, aggVars, sysVars, resolved, writers,
                   annotated>>

\* one iteration whose answer is not of the expected shape: an exception
\* other than RequestException leaves the function
FetchUnexpectedAnswer ==
    /\ fetchPc = "loop"
    /\ Len(all_images) < limit
    /\ fetchPc' = "raised"
    /\ UNCHANGED <<all_images, page_token, limit, aggVars, sysVars, resolved, writers,
                   annotated>>

\* the loop's test fails: return all_images
FetchReturn ==
    /\ fetchPc = "loop"
    /\ ~(Len(all_images) < limit)
    /\ fetchPc' = "returned"
    /\ UNCHANGED <<all_images, page_token, limit, aggVars, sysVars, resolved, writers,
                   annotated>>

NextFetch ==
    \/ \E lim \in 0..MaxLimit : FetchImagesMetadata(lim)
    \/ \E images \in Pages, after \in Cursors : FetchPage(images, after)
    \/ FetchRequestError
    \/ FetchUnexpectedAnswer
    \/ FetchReturn

\* the function, once called, keeps running: every request returns or raises
FetchRuns ==
    WF_vars(\/ \E images \in Pages, after \in Cursors : FetchPage(images, after)
            \/ FetchRequestError
            \/ FetchUnexpectedAnswer
            \/ FetchReturn)

SpecFetch == Init /\ [][NextFetch]_vars /\ FetchRuns

\* the function has returned or raised
FetchOver == fetchPc \in {"returned", "raised"}

\* C30: an iteration of the loop is made only below the limit, and either
\* leaves the loop or makes all_images strictly longer; at or above the limit
\* the function returns; and a call of fetch_images_metadata always ends,
\* whatever the API answers.
C30_FetchTerminates ==
    /\ [][ (fetchPc = "loop" /\ fetchVars' # fetchVars) =>
               /\ limit' = limit
               /\ Len(all_images) < limit =>
                      \/ FetchOver'
                      \/ Len(all_images') > Len(all_images)
               /\ ~(Len(all_images) < limit) =>
                      (fetchPc' = "returned" /\ all_images' = all_images) ]_vars
    /\ (fetchPc = "loop") ~> FetchOver

\* a call that followed a cursor and was stopped by the limit
C30_Witness ==
    /\ fetchPc = "returned"
    /\ limit >= 2
    /\ page_token = "t1"
    /\ Len(all_images) >= limit

====
